---- MODULE Spec2Model ----
(***************************************************************************)
(* Model of "untitled folder/Data code.py": Dataset (a pandas DataFrame    *)
(* loaded from a CSV file), the singleton DataManager and its operations   *)
(* read_data, add_data, edit_data, delete_data and filter_data, driven by  *)
(* the unguarded loop at the end of the file.                              *)
(*                                                                         *)
(* A DataFrame is a record                                                 *)
(*   columns : the set of column names,                                    *)
(*   index   : the sequence of row labels (position k holds the label of   *)
(*             the k-th row; positions are 1-based here, labels are the    *)
(*             integers pandas shows, 0-based after a RangeIndex),         *)
(*   rows    : the sequence of rows, each a function columns -> cell.      *)
(* A cell is an integer, a text or null (NaN).  Floating point cells are   *)
(* not modelled; the order of the columns is not modelled.                 *)
(* edit_data follows pandas 1.x/2.x, where writing a text into a numeric   *)
(* column upcasts the column to object and stores the value.               *)
(***************************************************************************)
EXTENDS Integers, Sequences, FiniteSets

VARIABLES datasets, loaded, heap, _instance, handles, last, prev, running, nops

vars == <<datasets, loaded, heap, _instance, handles, last, prev, running, nops>>

(* ------------------------------ bounds --------------------------------- *)

\* no row is added to a table that already holds MaxRows rows
MaxRows == 4
\* number of operations issued in one session
MaxOps == 2
\* number of Dataset objects that exist (the script builds the first one)
NDatasets == 2

(* ------------------------------- cells --------------------------------- *)

IntCell(n) == [kind |-> "int", n |-> n, s |-> ""]

TextCell(s) == [kind |-> "text", n |-> 0, s |-> s]

Null == [kind |-> "null", n |-> 0, s |-> ""]

(* ----------------------------- DataFrames ------------------------------ *)

\* RangeIndex(n): the labels 0 .. n-1
RangeIndex(n) == [k \in 1..n |-> k - 1]

Labels(t) == {t.index[k] : k \in 1..Len(t.index)}

\* position of the row that carries a label (labels are unique)
PosOf(t, label) == CHOOSE k \in 1..Len(t.index) : t.index[k] = label

\* the rows at the positions listed in keep, with their labels
Take(t, keep) ==
    [columns |-> t.columns,
     index   |-> [j \in 1..Len(keep) |-> t.index[keep[j]]],
     rows    |-> [j \in 1..Len(keep) |-> t.rows[keep[j]]]]

\* a row (or dict) widened to the columns cols, NaN where it has no value
Widen(r, cols) == [c \in cols |-> IF c \in DOMAIN r THEN r[c] ELSE Null]

(* --------------------------- return values ----------------------------- *)

\* the table field of a return value that is no DataFrame
NoFrame == [columns |-> {}, index |-> <<>>, rows |-> <<>>]

Str(m) == [kind |-> "str", msg |-> m, table |-> NoFrame]

Frame(t) == [kind |-> "DataFrame", msg |-> "", table |-> t]

None == [kind |-> "None", msg |-> "", table |-> NoFrame]

Raise(e) == [kind |-> "raise", msg |-> e, table |-> NoFrame]

(* ------------------------------ Dataset -------------------------------- *)

\* the columns Dataset.__init__ reads eagerly; a CSV without one of them
\* raises KeyError before the session starts
RequiredColumns == {"date", "revenue", "product", "discounts"}

\* Dataset.__init__: pd.read_csv gives the rows of the file under a RangeIndex
Dataset__init__(csv) ==
    [columns |-> csv.header,
     index   |-> RangeIndex(Len(csv.lines)),
     rows    |-> csv.lines]

\* Dataset.get_data
get_data(t) == t

(* ---------------------------- DataManager ------------------------------ *)

\* DataManager.__new__(cls, dataset): inst is cls._instance (0 is None), hp
\* the DataManager objects allocated so far; ref is the object returned
DataManager__new__Fresh(inst, hp, dataset) ==
    [instance |-> Len(hp) + 1,
     heap     |-> Append(hp, [dataset |-> dataset]),
     ref      |-> Len(hp) + 1]

DataManager__new__(inst, hp, dataset) ==
    IF inst = 0
    THEN [instance |-> Len(hp) + 1,
          heap     |-> Append(hp, [dataset |-> dataset]),
          ref      |-> Len(hp) + 1]
    ELSE [instance |-> inst, heap |-> hp, ref |-> inst]

\* DataManager.read_data
read_data(t) == get_data(t)

\* pd.concat([data, new_row_df], ignore_index=True): outer join of the
\* columns, the new row last, labels renumbered 0 .. N
concat(t, new_row_data) ==
    LET cols == t.columns \cup DOMAIN new_row_data
        N    == Len(t.rows)
    IN  [columns |-> cols,
         index   |-> RangeIndex(N + 1),
         rows    |-> [k \in 1..(N + 1) |->
                        IF k <= N THEN Widen(t.rows[k], cols)
                                  ELSE Widen(new_row_data, cols)]]

\* pd.concat([data, new_row_df]) without ignore_index: the new row keeps the
\* label 0 it has in new_row_df
concat_keep_labels(t, new_row_data) ==
    [concat(t, new_row_data) EXCEPT !.index = Append(t.index, 0)]

\* the values of the date column
DateValues(t) == {t.rows[k]["date"] : k \in 1..Len(t.rows)}

\* add_data without the duplicate test
add_data_no_check(t, new_row_data) ==
    IF "date" \notin DOMAIN new_row_data
    THEN [data |-> t, ret |-> Raise("KeyError")]
    ELSE [data |-> concat(t, new_row_data), ret |-> Str("Data added successfully.")]

\* add_data that concatenates before it tests for the duplicate
add_data_concat_first(t, new_row_data) ==
    IF "date" \notin DOMAIN new_row_data
    THEN [data |-> t, ret |-> Raise("KeyError")]
    ELSE IF new_row_data["date"] \in DateValues(t)
    THEN [data |-> concat(t, new_row_data),
          ret  |-> Str("Duplicate found. Data couldn't be added.")]
    ELSE [data |-> concat(t, new_row_data), ret |-> Str("Data added successfully.")]

\* add_data with the concat that keeps the labels
add_data_keep_labels(t, new_row_data) ==
    IF "date" \notin DOMAIN new_row_data
    THEN [data |-> t, ret |-> Raise("KeyError")]
    ELSE IF new_row_data["date"] \in DateValues(t)
    THEN [data |-> t, ret |-> Str("Duplicate found. Data couldn't be added.")]
    ELSE [data |-> concat_keep_labels(t, new_row_data),
          ret  |-> Str("Data added successfully.")]

\* DataManager.add_data(new_row_data): new_row_data['date'] raises KeyError
\* when the dict has no such key
add_data(t, new_row_data) ==
    IF "date" \notin DOMAIN new_row_data
    THEN [data |-> t, ret |-> Raise("KeyError")]
    ELSE IF new_row_data["date"] \in DateValues(t)
    THEN [data |-> t, ret |-> Str("Duplicate found. Data couldn't be added.")]
    ELSE [data |-> concat(t, new_row_data), ret |-> Str("Data added successfully.")]

\* data.at[index, column] = new_value: DataFrame._set_value writes the cell
\* when the label and the column exist, and otherwise falls back to
\* data.loc[index, column] = new_value, which enlarges the frame: a missing
\* label becomes a new last row, a missing column a new column, NaN elsewhere
at_set(t, index, column, new_value) ==
    LET cols == t.columns \cup {column}
        N    == Len(t.rows)
        wide == [k \in 1..N |-> Widen(t.rows[k], cols)]
    IN  IF index \in Labels(t)
        THEN [columns |-> cols,
              index   |-> t.index,
              rows    |-> [wide EXCEPT ![PosOf(t, index)][column] = new_value]]
        ELSE [columns |-> cols,
              index   |-> Append(t.index, index),
              rows    |-> Append(wide, [c \in cols |->
                                          IF c = column THEN new_value ELSE Null])]

\* DataManager.edit_data(index, column, new_value)
edit_data(t, index, column, new_value) ==
    [data |-> at_set(t, index, column, new_value),
     ret  |-> Str("Data edited successfully.")]

\* data.drop(index, axis=0): KeyError when no row carries the label
\* .reset_index(drop=True): the remaining rows relabelled 0 .. N-2
drop_reset(t, index) ==
    LET N    == Len(t.rows)
        keep == SelectSeq([k \in 1..N |-> k], LAMBDA k : t.index[k] # index)
    IN  [Take(t, keep) EXCEPT !.index = RangeIndex(Len(keep))]

\* DataManager.delete_data(index)
delete_data(t, index) ==
    IF index \notin Labels(t)
    THEN [data |-> t, ret |-> Raise("KeyError")]
    ELSE [data |-> drop_reset(t, index), ret |-> Str("Data deleted successfully.")]

\* the column each query names
FilterColumn(choice) ==
    CASE choice = 1 -> "IT"
      [] choice = 2 -> "Marketing"
      [] choice = 3 -> "Finance"
      [] choice = 4 -> "Operations"
      [] choice = 5 -> "Month"

\* the queries that compare the column with a number
IsComparison(choice) == choice \in {1, 2, 4}

\* the value of the query expression on one cell; a comparison with NaN is
\* False, Month in [...] is False for anything but the two texts
QueryHolds(choice, cell) ==
    CASE choice = 1 -> cell.kind = "int" /\ cell.n >= 30000
      [] choice = 2 -> cell.kind = "int" /\ cell.n < 22000
      [] choice = 3 -> cell.kind # "null"
      [] choice = 4 -> cell.kind = "int" /\ 25000 <= cell.n /\ cell.n <= 30000
      [] choice = 5 -> cell \in {TextCell("January 2023"), TextCell("March 2023")}

\* data.query(expr): a name that is no column raises UndefinedVariableError,
\* an order comparison of a text cell with a number raises TypeError, and
\* otherwise the rows on which the expression holds are returned with their
\* labels
query(t, choice) ==
    LET c == FilterColumn(choice)
        N == Len(t.rows)
    IN  IF c \notin t.columns
        THEN Raise("UndefinedVariableError")
        ELSE IF IsComparison(choice) /\ \E k \in 1..N : t.rows[k][c].kind = "text"
        THEN Raise("TypeError")
        ELSE Frame(Take(t, SelectSeq([k \in 1..N |-> k],
                                     LAMBDA k : QueryHolds(choice, t.rows[k][c]))))

\* filter_data without the else branch: filtered_data is unbound
filter_data_no_else(t, choice) ==
    IF choice \in 1..5 THEN query(t, choice) ELSE Raise("UnboundLocalError")

\* DataManager.filter_data(choice)
filter_data(t, choice) ==
    IF choice \in 1..5 THEN query(t, choice) ELSE None

(* ------------------------------- inputs -------------------------------- *)

Header == RequiredColumns \cup {"IT", "Marketing", "Finance", "Operations", "Month"}

\* a line of a CSV file with the full header
Line(date, it, marketing, finance, operations, month) ==
    [c \in Header |->
        CASE c = "date"       -> TextCell(date)
          [] c = "revenue"    -> IntCell(100)
          [] c = "product"    -> TextCell("widget")
          [] c = "discounts"  -> IntCell(0)
          [] c = "IT"         -> it
          [] c = "Marketing"  -> marketing
          [] c = "Finance"    -> finance
          [] c = "Operations" -> operations
          [] c = "Month"      -> month]

\* a dict restricted to some of its keys
Only(r, keys) == [c \in keys |-> r[c]]

\* the CSV files a Dataset is loaded from; every header holds RequiredColumns
CsvQuarter ==
    [header |-> Header,
     lines  |-> << Line("2023-01-01", IntCell(29000), IntCell(21999), Null,
                        IntCell(24999), TextCell("January 2023")),
                   Line("2023-02-01", IntCell(30000), IntCell(22000), IntCell(500),
                        IntCell(25000), TextCell("February 2023")),
                   Line("2023-03-01", IntCell(31000), IntCell(25000), IntCell(700),
                        IntCell(30000), TextCell("March 2023")) >>]

CsvTwoMonths ==
    [header |-> Header,
     lines  |-> << Line("2023-01-01", IntCell(30000), IntCell(22000), IntCell(1),
                        IntCell(30001), TextCell("March 2023")),
                   Line("2023-02-01", Null, IntCell(21000), Null,
                        IntCell(30000), TextCell("April 2023")) >>]

CsvNarrow ==
    [header |-> RequiredColumns \cup {"IT", "Month"},
     lines  |-> << Only(Line("2023-03-01", IntCell(30001), Null, Null, Null,
                             TextCell("January 2023")),
                        RequiredColumns \cup {"IT", "Month"}) >>]

CsvFiles == {CsvQuarter, CsvTwoMonths, CsvNarrow}

\* the dicts handed to add_data; the date of a dict is never null
AddInputs ==
    LET hit  == Line("2023-01-01", IntCell(30000), IntCell(21999), IntCell(5),
                     IntCell(25000), TextCell("January 2023"))
        miss == Line("2023-04-01", IntCell(29999), IntCell(22000), Null,
                     IntCell(30001), TextCell("April 2023"))
        text == Line("2023-04-01", TextCell("abc"), IntCell(1), IntCell(1),
                     IntCell(1), TextCell("March 2023"))
    IN  { hit, miss, text,
          [text EXCEPT !["date"] = TextCell("2023-02-01")],
          Only(hit, {"date"}),
          Only(miss, {"date", "IT"}),
          [c \in {"date", "bonus"} |->
              IF c = "date" THEN TextCell("2023-04-01") ELSE IntCell(1)],
          Only(hit, {"IT", "Month"}) }

\* the row labels handed to edit_data and delete_data
IndexInputs == -1..MaxRows

\* the (column, new_value) pairs handed to edit_data
EditInputs ==
    { <<"date", TextCell("2023-01-01")>>,
      <<"IT", IntCell(30000)>>,
      <<"IT", TextCell("abc")>>,
      <<"Finance", Null>>,
      <<"Month", TextCell("January 2023")>>,
      <<"bonus", IntCell(1)>> }

\* the choices handed to filter_data
FilterChoices == 0..6

(* ------------------------------- state --------------------------------- *)

\* the Dataset a handle's DataManager is bound to, and its DataFrame
DatasetOf(h) == heap[handles[h].ref].dataset

DataOf(h) == datasets[DatasetOf(h)]

NoOp ==
    [op |-> "none", h |-> 0, row |-> [c \in {} |-> Null], index |-> 0,
     column |-> "", value |-> Null, choice |-> 0, ret |-> None]

\* lines 253-260: the Dataset objects are loaded and the first DataManager is
\* constructed on Dataset 1
Init ==
    \E files \in [1..NDatasets -> CsvFiles] :
        LET m == DataManager__new__(0, <<>>, 1)
        IN  /\ \A d \in 2..NDatasets : files[d] = CsvTwoMonths
            /\ datasets = [d \in 1..NDatasets |-> Dataset__init__(files[d])]
            /\ loaded = datasets
            /\ heap = m.heap
            /\ _instance = m.instance
            /\ handles = << [ref |-> m.ref, arg |-> 1] >>
            /\ last = NoOp
            /\ prev = datasets[1]
            /\ running = TRUE
            /\ nops = 0

\* what every operation does around the call: the session goes on unless the
\* call raised (nothing in the file catches an exception)
Step(h, d, r, rec) ==
    /\ datasets' = [datasets EXCEPT ![d] = r.data]
    /\ prev' = datasets[d]
    /\ last' = [rec EXCEPT !.h = h, !.ret = r.ret]
    /\ running' = (r.ret.kind # "raise")
    /\ nops' = nops + 1
    /\ UNCHANGED <<loaded, heap, _instance, handles>>

Ready == running /\ nops < MaxOps

\* DataManager(dataset) called once more
Construct(d) ==
    /\ Ready
    /\ LET m == DataManager__new__(_instance, heap, d)
       IN  /\ heap' = m.heap
           /\ _instance' = m.instance
           /\ handles' = Append(handles, [ref |-> m.ref, arg |-> d])
           /\ last' = [NoOp EXCEPT !.op = "DataManager", !.h = Len(handles) + 1]
           /\ prev' = datasets[m.heap[m.ref].dataset]
    /\ nops' = nops + 1
    /\ UNCHANGED <<datasets, loaded, running>>

ReadData(h) ==
    /\ Ready
    /\ Step(h, DatasetOf(h), [data |-> DataOf(h), ret |-> Frame(read_data(DataOf(h)))],
            [NoOp EXCEPT !.op = "read_data"])

AddData(h, new_row_data) ==
    /\ Ready
    /\ Len(DataOf(h).rows) < MaxRows
    /\ Step(h, DatasetOf(h), add_data(DataOf(h), new_row_data),
            [NoOp EXCEPT !.op = "add_data", !.row = new_row_data])

EditData(h, index, column, new_value) ==
    /\ Ready
    /\ Len(DataOf(h).rows) < MaxRows \/ index \in Labels(DataOf(h))
    /\ Step(h, DatasetOf(h), edit_data(DataOf(h), index, column, new_value),
            [NoOp EXCEPT !.op = "edit_data", !.index = index, !.column = column,
                         !.value = new_value])

DeleteData(h, index) ==
    /\ Ready
    /\ Step(h, DatasetOf(h), delete_data(DataOf(h), index),
            [NoOp EXCEPT !.op = "delete_data", !.index = index])

FilterData(h, choice) ==
    /\ Ready
    /\ Step(h, DatasetOf(h), [data |-> DataOf(h), ret |-> filter_data(DataOf(h), choice)],
            [NoOp EXCEPT !.op = "filter_data", !.choice = choice])

Next ==
    \/ \E d \in 1..NDatasets : Construct(d)
    \/ \E h \in 1..Len(handles) : ReadData(h)
    \/ \E h \in 1..Len(handles) : \E r \in AddInputs : AddData(h, r)
    \/ \E h \in 1..Len(handles) : \E i \in IndexInputs : \E e \in EditInputs :
          EditData(h, i, e[1], e[2])
    \/ \E h \in 1..Len(handles) : \E i \in IndexInputs : DeleteData(h, i)
    \/ \E h \in 1..Len(handles) : \E c \in FilterChoices : FilterData(h, c)

Spec == Init /\ [][Next]_vars

(* ------------------------------- claims -------------------------------- *)

\* the table the last operation worked on, as it is now
Cur == DataOf(last.h)

\* the last operation was op, issued through a DataManager
Did(op) == last.op = op /\ last.h >= 1

\* position k of a table with n rows removed from a sequence
Without(seq, k) == [j \in 1..(Len(seq) - 1) |-> IF j < k THEN seq[j] ELSE seq[j + 1]]

\* row k of table t agrees with row on the columns cols
SameCells(t, k, row, cols) == \A c \in cols : t.rows[k][c] = row[c]

DistinctDates(t) ==
    \A j, k \in 1..Len(t.rows) : j # k => t.rows[j]["date"] # t.rows[k]["date"]

\* the case of C1 and C10: the dict has a date and no row of the table has it
FreshDate == Did("add_data") /\ "date" \in DOMAIN last.row
             /\ last.row["date"] \notin DateValues(prev)

\* the case of C2: the dict has a date and some row of the table has it
DuplicateDate == Did("add_data") /\ "date" \in DOMAIN last.row
                 /\ last.row["date"] \in DateValues(prev)

\* C1: add_data with a date that no existing row has returns the success
\* message and appends the row: the table has one row more, the new row is
\* the last one, at index N (the old row count), and every prior row is at
\* the index it had with the cell values it had.
C1_InsertAppends ==
    FreshDate =>
        /\ last.ret = Str("Data added successfully.")
        /\ Len(Cur.rows) = Len(prev.rows) + 1
        /\ Cur.index = RangeIndex(Len(prev.rows) + 1)
        /\ SameCells(Cur, Len(prev.rows) + 1, last.row, DOMAIN last.row)
        /\ \A k \in 1..Len(prev.rows) : SameCells(Cur, k, prev.rows[k], prev.columns)

C1_Witness ==
    /\ FreshDate
    /\ Len(prev.rows) >= 2
    /\ Len(Cur.rows) = Len(prev.rows) + 1
    /\ DOMAIN last.row = Header

\* C2: add_data with a date that some existing row has returns the duplicate
\* message and leaves the table exactly as it was.
C2_DuplicateRejected ==
    DuplicateDate =>
        /\ last.ret = Str("Duplicate found. Data couldn't be added.")
        /\ Cur = prev

C2_Witness ==
    /\ DuplicateDate
    /\ Len(prev.rows) >= 2
    /\ last.ret.msg = "Duplicate found. Data couldn't be added."

\* C3: delete_data(i) on an N-row table with 0 <= i < N succeeds and leaves
\* the N-1 rows that were at the other positions, in their order: rows
\* 0..i-1 where they were, every row j > i at j-1.
C3_DeleteClosesGap ==
    (Did("delete_data") /\ last.index \in 0..(Len(prev.rows) - 1)) =>
        /\ last.ret = Str("Data deleted successfully.")
        /\ Cur.rows = Without(prev.rows, last.index + 1)
        /\ Cur.columns = prev.columns

C5_FilterExact ==
    (Did("filter_data") /\ last.choice \in 1..5
        /\ FilterColumn(last.choice) \in Cur.columns) =>
        LET c   == FilterColumn(last.choice)
            out == last.ret.table
        IN  /\ last.ret.kind = "DataFrame"
            /\ out.columns = Cur.columns
            /\ \A k \in 1..Len(Cur.rows) :
                  QueryHolds(last.choice, Cur.rows[k][c]) <=>
                      \E j \in 1..Len(out.rows) :
                          out.index[j] = Cur.index[k] /\ out.rows[j] = Cur.rows[k]
            /\ \A j \in 1..Len(out.rows) :
                  \E k \in 1..Len(Cur.rows) :
                      /\ out.index[j] = Cur.index[k] /\ out.rows[j] = Cur.rows[k]
                      /\ QueryHolds(last.choice, Cur.rows[k][c])

\* C6: every DataManager(...) call returns the one instance, bound to the
\* dataset of the first call; read_data through any two handles gives the
\* same table, and no second DataManager object exists.
C6_Singleton ==
    /\ Len(heap) = 1
    /\ \A h \in 1..Len(handles) :
          /\ handles[h].ref = handles[1].ref
          /\ DatasetOf(h) = handles[1].arg
    /\ \A g, h \in 1..Len(handles) : read_data(DataOf(g)) = read_data(DataOf(h))

C6_Witness ==
    /\ Len(handles) >= 2
    /\ handles[2].arg # handles[1].arg
    /\ last.op \in {"add_data", "edit_data", "delete_data"}
    /\ last.h = 2
    /\ Cur # prev
    /\ datasets[handles[2].arg] # datasets[handles[1].arg]

\* C7: whatever add_data, edit_data and delete_data calls were made, the row
\* labels of the table are exactly 0 .. N-1 in order.
C7_ContiguousIndex ==
    \A h \in 1..Len(handles) : DataOf(h).index = RangeIndex(Len(DataOf(h).rows))

\* C8: whatever add_data, edit_data and delete_data calls were made, the
\* columns of the table are the columns of the CSV header it was loaded with.
C8_FixedColumns ==
    \A h \in 1..Len(handles) : DataOf(h).columns = loaded[DatasetOf(h)].columns

\* C9: edit_data with a row index outside 0..N-1 or a column the table does
\* not have, and delete_data with a row index outside 0..N-1, return a
\* failure outcome (no success message, no exception that ends the session)
\* and leave the table unchanged.
C9_BadAccessReported ==
    (\/ Did("edit_data") /\ (\/ last.index \notin 0..(Len(prev.rows) - 1)
                             \/ last.column \notin prev.columns)
     \/ Did("delete_data") /\ last.index \notin 0..(Len(prev.rows) - 1)) =>
        /\ last.ret.kind = "str"
        /\ last.ret.msg \notin {"Data edited successfully.", "Data deleted successfully."}
        /\ running
        /\ Cur = prev

\* C10: an add_data call, or a delete_data call with an index in 0..N-1, on
\* a table whose date values are pairwise distinct leaves a table whose date
\* values are pairwise distinct.
C10_DatesStayDistinct ==
    (/\ \/ Did("add_data")
        \/ Did("delete_data") /\ last.index \in 0..(Len(prev.rows) - 1)
     /\ DistinctDates(prev)) => DistinctDates(Cur)

C10_Witness ==
    /\ Did("add_data")
    /\ "date" \in DOMAIN last.row
    /\ DistinctDates(prev)
    /\ Len(prev.rows) >= 2
    /\ Cur # prev

\* C10, second half: edit_data can leave two rows with the same date on a table
\* whose dates were pairwise distinct; this state is reachable.
C10_EditDuplicates ==
    Did("edit_data") /\ DistinctDates(prev) /\ ~DistinctDates(Cur)

====
